---- MODULE Spec2Model ----
(***************************************************************************)
(* Model of plugins/extract/detect/_base.py (class Detector): the rotation *)
(* option parser, the batch assembler get_batch, the rotation search       *)
(* _predict/_rotate_batch and the result finalizer finalize.               *)
(*                                                                         *)
(* Conventions                                                             *)
(*  - a Python str is a tuple of one-character strings;                    *)
(*  - a Python dict is a function whose DOMAIN is its key set;             *)
(*  - a float coordinate is a rational: an integer numerator over a        *)
(*    denominator that is passed along (raw boxes use CoordDen);           *)
(*  - a numpy rotation matrix is <<>> (np.array([])) or <<angle>> (the     *)
(*    2x3 matrix built for that angle, which always has a non-zero entry). *)
(***************************************************************************)
EXTENDS Integers, Sequences, FiniteSets, TLC

VARIABLES
    pc,            \* position of the driver: which call comes next
    rotation,      \* the rotation argument of Detector.__init__
    self_rotation, \* self.rotation, the angle list
    min_size,      \* self.min_size
    batchsize,     \* self.batchsize
    queue,         \* the input queue: items followed by "EOF"
    returned,      \* what each get_batch call returned, in call order
    batch,         \* the batch dict handed from stage to stage
    found_faces,   \* _predict's local found_faces
    angle_idx,     \* position of _predict's for loop in self.rotation
    calls,         \* number of self.predict invocations made by _predict
    found_angle,   \* per item: the angle whose call last wrote found_faces
    seen,          \* per item: self.predict has returned a prediction with
                   \* a box in it (box), with a non-zero box in it (any)
    rect_rotated,  \* per item: finalize applied _rotate_rect to its records
    output         \* the records finalize yields, in order

vars == <<pc, rotation, self_rotation, min_size, batchsize, queue, returned,
          batch, found_faces, angle_idx, calls, found_angle, seen,
          rect_rotated, output>>

(***************************************************************************)
(* Bounds of the model.                                                    *)
(***************************************************************************)
MaxRotLen == 6      \* longest rotation option string that is enumerated
MaxQueue == 3       \* most items in the input queue before "EOF"
MaxBatch == 2       \* largest self.batchsize
MaxItems == 2       \* most items of a batch given to _predict
CoordDen == 2       \* raw box coordinates are multiples of 1/CoordDen
MaxRaw == 6         \* raw coordinates given to to_detected_face: -MaxRaw..MaxRaw
RawDen == 4         \* ... in units of 1/RawDen
MaxDim == 10        \* largest frame height and width that is compiled

\* self.input_size, set by the plugin that subclasses Detector
input_size == 8

(***************************************************************************)
(* Python helpers.                                                         *)
(***************************************************************************)
\* str.lower() on one character
LowerChar(c) ==
    CASE c = "O" -> "o"
      [] c = "N" -> "n"
      [] c = "F" -> "f"
      [] OTHER -> c

\* str.lower()
Lower(s) == [i \in 1..Len(s) |-> LowerChar(s[i])]

\* str.split(","): the tokens between the commas, empty tokens included
RECURSIVE SplitFrom(_, _, _)
SplitFrom(s, i, tok) ==
    IF i > Len(s) THEN <<tok>>
    ELSE IF s[i] = "," THEN <<tok>> \o SplitFrom(s, i + 1, <<>>)
    ELSE SplitFrom(s, i + 1, Append(tok, s[i]))

Split(s) == SplitFrom(s, 1, <<>>)

Digits == {"0", "1", "2", "3", "4", "5", "6", "7", "8", "9"}

DigitVal(c) ==
    CASE c = "0" -> 0 [] c = "1" -> 1 [] c = "2" -> 2 [] c = "3" -> 3
      [] c = "4" -> 4 [] c = "5" -> 5 [] c = "6" -> 6 [] c = "7" -> 7
      [] c = "8" -> 8 [] c = "9" -> 9

\* the digits of a token without its sign
Unsigned(tok) ==
    IF Len(tok) > 0 /\ tok[1] = "-" THEN SubSeq(tok, 2, Len(tok)) ELSE tok

\* int(token) succeeds: an optional sign followed by one or more digits
IsInt(tok) ==
    /\ Len(Unsigned(tok)) > 0
    /\ \A i \in 1..Len(Unsigned(tok)) : Unsigned(tok)[i] \in Digits

RECURSIVE DigitsVal(_, _)
DigitsVal(ds, acc) ==
    IF ds = <<>> THEN acc
    ELSE DigitsVal(Tail(ds), 10 * acc + DigitVal(Head(ds)))

\* int(token)
ToInt(tok) ==
    IF Len(tok) > 0 /\ tok[1] = "-"
    THEN 0 - DigitsVal(Unsigned(tok), 0)
    ELSE DigitsVal(tok, 0)

\* len(range(start, stop, step)) for step # 0
RangeLen(start, stop, step) ==
    IF step > 0 /\ start < stop THEN (stop - start + step - 1) \div step
    ELSE IF step < 0 /\ start > stop THEN (start - stop - step - 1) \div (0 - step)
    ELSE 0

\* list(range(start, stop, step)) for step # 0
Range(start, stop, step) ==
    [i \in 1..RangeLen(start, stop, step) |-> start + (i - 1) * step]

\* [x for x in s if test]
RECURSIVE NonZero(_)
NonZero(s) ==
    IF s = <<>> THEN <<>>
    ELSE IF Head(s) # 0 THEN <<Head(s)>> \o NonZero(Tail(s))
    ELSE NonZero(Tail(s))

(***************************************************************************)
(* Detector._get_rotation_angles.  The argument is [none, chars]: None or  *)
(* a str.  The result is [ok, angles]; ok = FALSE is the ValueError that   *)
(* int() raises on a token that is no integer.                             *)
(***************************************************************************)
None == [none |-> TRUE, chars |-> <<>>]
Str(s) == [none |-> FALSE, chars |-> s]

Off == <<"o", "f", "f">>
On == <<"o", "n">>

\* variant: the step angles run up to and including 360
StepAnglesTo360(step) == Range(step, 361, step)

\* lines 336-338: range(rotation_step_size, 360, rotation_step_size)
StepAngles(step) == Range(step, 360, step)

PassedAngles(tokens) == NonZero([i \in 1..Len(tokens) |-> ToInt(tokens[i])])

ExtendPassed(passed) ==
    IF Len(passed) = 1 THEN <<0>> \o StepAngles(passed[1])
    ELSE IF Len(passed) > 1 THEN <<0>> \o passed
    ELSE <<0>>

_get_rotation_angles(rot) ==
    IF rot.none \/ rot.chars = <<>> \/ Lower(rot.chars) = Off
    THEN [ok |-> TRUE, angles |-> <<0>>]
    ELSE IF Lower(rot.chars) = On
    THEN [ok |-> TRUE, angles |-> <<0>> \o Range(90, 360, 90)]
    ELSE IF \E i \in 1..Len(Split(rot.chars)) : ~IsInt(Split(rot.chars)[i])
    THEN [ok |-> FALSE, angles |-> <<>>]
    ELSE [ok |-> TRUE, angles |-> ExtendPassed(PassedAngles(Split(rot.chars)))]

(***************************************************************************)
(* Geometry.  An image is [id, shape], shape = <<height, width>>.  A scale *)
(* is the fraction <<numerator, denominator>>; int(x) of a non-negative    *)
(* fraction is its floor.                                                  *)
(***************************************************************************)
Max(a, b) == IF a >= b THEN a ELSE b

\* Detector._set_scale: input_size / max(image_size)
_set_scale(image_size) == <<input_size, Max(image_size[1], image_size[2])>>

\* int(dim * scale)
ScaledDim(dim, scale) == (dim * scale[1]) \div scale[2]

\* Detector._set_padding: (pad_left, pad_top)
_set_padding(image_size, scale) ==
    << (input_size - ScaledDim(image_size[2], scale)) \div 2,
       (input_size - ScaledDim(image_size[1], scale)) \div 2 >>

\* Detector._scale_image: the resized image (a no-op when scale == 1.0)
_scale_image(image, image_size, scale) ==
    IF scale[1] # scale[2]
    THEN [image EXCEPT !.shape = << ScaledDim(image_size[1], scale),
                                    ScaledDim(image_size[2], scale) >>]
    ELSE image

\* variant: the larger half of an odd padding goes to the left and top
_pad_image_larger_first(image) ==
    IF image.shape[2] < input_size \/ image.shape[1] < input_size
    THEN [id |-> image.id,
          shape |-> << image.shape[1] + (input_size - image.shape[1]),
                       image.shape[2] + (input_size - image.shape[2]) >>,
          border |-> << (input_size - image.shape[2] + 1) \div 2,
                        (input_size - image.shape[1] + 1) \div 2 >>]
    ELSE [id |-> image.id, shape |-> image.shape, border |-> <<0, 0>>]

\* Detector._pad_image: the image centred on the input_size square; border
\* is <<left, top>>, the border added before the image's first column and row
_pad_image(image) ==
    IF image.shape[2] < input_size \/ image.shape[1] < input_size
    THEN [id |-> image.id,
          shape |-> << image.shape[1] + (input_size - image.shape[1]),
                       image.shape[2] + (input_size - image.shape[2]) >>,
          border |-> << (input_size - image.shape[2]) \div 2,
                        (input_size - image.shape[1]) \div 2 >>]
    ELSE [id |-> image.id, shape |-> image.shape, border |-> <<0, 0>>]

\* Detector._compile_detection_image: <<scaled image, scale, pad>>
_compile_detection_image(input_image) ==
    LET image_size == input_image.shape
        scale == _set_scale(image_size)
        pad == _set_padding(image_size, scale)
    IN  << _pad_image(_scale_image(input_image, image_size, scale)), scale, pad >>

(***************************************************************************)
(* Detector.get_batch.  The queue holds items (dicts) and the end marker.  *)
(***************************************************************************)
EOF == [eof |-> TRUE]

EmptyDict == [k \in {} |-> <<>>]

\* batch.setdefault(key, []).append(val)
SetDefaultAppend(b, key, val) ==
    [k \in DOMAIN b \cup {key} |->
        IF k = key
        THEN Append(IF key \in DOMAIN b THEN b[key] ELSE <<>>, val)
        ELSE b[k]]

\* for key, val in item.items(): batch.setdefault(key, []).append(val)
AppendItem(b, item) ==
    [k \in DOMAIN b \cup DOMAIN item |->
        IF k \in DOMAIN item
        THEN Append(IF k \in DOMAIN b THEN b[k] ELSE <<>>, item[k])
        ELSE b[k]]

\* lines 115-118: the derived fields of one item
AppendCompiled(b, item) ==
    LET c == _compile_detection_image(item["image"])
    IN  SetDefaultAppend(SetDefaultAppend(SetDefaultAppend(b,
            "scaled_image", c[1]), "scale", c[2]), "pad", c[3])

\* Extractor._get_item: queue.get(), which blocks on an empty queue
_get_item_blocks(q) == q = <<>>

\* the for loop of get_batch with `left` iterations to go; the result is
\* what the call does: block, raise KeyError, or return (exhausted, batch),
\* with the queue it leaves behind
RECURSIVE GetBatchLoop(_, _, _)
GetBatchLoop(q, left, b) ==
    IF left = 0
    THEN [blocked |-> FALSE, raised |-> FALSE, exhausted |-> FALSE,
          batch |-> b, queue |-> q]
    ELSE IF _get_item_blocks(q)
    THEN [blocked |-> TRUE, raised |-> FALSE, exhausted |-> FALSE,
          batch |-> b, queue |-> q]
    ELSE IF Head(q) = EOF
    THEN [blocked |-> FALSE, raised |-> FALSE, exhausted |-> TRUE,
          batch |-> b, queue |-> Tail(q)]
    ELSE IF "image" \notin DOMAIN Head(q)
    THEN [blocked |-> FALSE, raised |-> TRUE, exhausted |-> FALSE,
          batch |-> EmptyDict, queue |-> Tail(q)]
    ELSE GetBatchLoop(Tail(q), left - 1,
                      AppendCompiled(AppendItem(b, Head(q)), Head(q)))

\* variant: the loop runs one iteration too many
get_batch_one_more(q) == GetBatchLoop(q, batchsize + 1, EmptyDict)

\* lines 106-125
get_batch(q) == GetBatchLoop(q, batchsize, EmptyDict)

(***************************************************************************)
(* The rotation search: Detector._predict and Detector._rotate_batch.      *)
(* A feed entry is [id, content, angle]: the compiled image of item id as  *)
(* it is ("image"), rotated by angle ("rotated") or zeroed ("zeros").      *)
(* A prediction is a tuple of raw boxes <<left, top, right, bottom>>, in   *)
(* units of 1/CoordDen.                                                    *)
(***************************************************************************)
\* batch[key] = val
DictSet(b, key, val) ==
    [k \in DOMAIN b \cup {key} |-> IF k = key THEN val ELSE b[k]]

\* numpy's arr.any() on an array of boxes: some element is non-zero
ArrAny(arr) == \E i \in 1..Len(arr) : \E j \in 1..Len(arr[i]) : arr[i][j] # 0

\* numpy's m.any() on a rotation matrix: <<>> is np.array([]); a built
\* matrix holds cos and sin of one angle, which are never both zero
MatAny(m) == Len(m) > 0

\* variant: the image is rotated but no matrix is handed back for it
_rotate_image_without_matrix(img, angle) ==
    << [id |-> img.id, content |-> "rotated", angle |-> angle], <<>> >>

\* Detector._rotate_image_by_angle: <<rotated image, rotation matrix>>
_rotate_image_by_angle(img, angle) ==
    << [id |-> img.id, content |-> "rotated", angle |-> angle], <<angle>> >>

\* np.zeros_like(img)
ZerosLike(img) == [id |-> img.id, content |-> "zeros", angle |-> 0]

\* line 356: the test that decides placeholder or rotation for item i
AlreadyFound(b, i) == ArrAny(b["prediction"][i])

\* Detector._rotate_batch
_rotate_batch(b, angle) ==
    IF angle = 0
    THEN DictSet(b, "initial_feed", b["feed"])
    ELSE LET n == Len(b["initial_feed"])
             image(i) == IF AlreadyFound(b, i)
                         THEN ZerosLike(b["initial_feed"][i])
                         ELSE _rotate_image_by_angle(b["initial_feed"][i], angle)[1]
             matrix(i) == IF AlreadyFound(b, i)
                          THEN b["rotmat"][i]
                          ELSE _rotate_image_by_angle(b["initial_feed"][i], angle)[2]
         IN  DictSet(DictSet(b, "feed", [i \in 1..n |-> image(i)]),
                     "rotmat", [i \in 1..n |-> matrix(i)])

\* variant: an entry is kept as soon as it holds a box, all zeros or not
MergeKeepsNonEmpty(prediction, found) ==
    [i \in 1..Len(found) |-> IF Len(found[i]) = 0 THEN prediction[i] ELSE found[i]]

\* variant: the latest non-empty prediction wins
MergeLatest(prediction, found) ==
    [i \in 1..Len(found) |-> IF ArrAny(prediction[i]) THEN prediction[i] ELSE found[i]]

\* lines 216-217: the merge of one angle's prediction into found_faces
MergeFound(prediction, found) ==
    [i \in 1..Len(found) |-> IF ~ArrAny(found[i]) THEN prediction[i] ELSE found[i]]

\* line 219: all([face.any() for face in found_faces])
AllFound(found) == \A i \in 1..Len(found) : ArrAny(found[i])

(***************************************************************************)
(* The finalizer: Detector.finalize and its helpers.  A face record is a   *)
(* DetectedFace [x, w, y, h].                                              *)
(***************************************************************************)
\* DetectedFace.left / .top / .right / .bottom
Left(face) == face.x
Top(face) == face.y
Right(face) == face.x + face.w
Bottom(face) == face.y + face.h

\* int(round(n / d)) for d > 0: Python rounds a tie to the even integer
Round(n, d) ==
    LET q == n \div d
        r == n % d
    IN  IF 2 * r < d THEN q
        ELSE IF 2 * r > d THEN q + 1
        ELSE IF q % 2 = 0 THEN q ELSE q + 1

\* variant: int() without round(), the coordinates are cut to the integer below
to_detected_face_floor(left, top, right, bottom, d) ==
    [x |-> left \div d, w |-> (right - left) \div d,
     y |-> top \div d, h |-> (bottom - top) \div d]

\* Detector.to_detected_face, the four coordinates given over denominator d
to_detected_face(left, top, right, bottom, d) ==
    [x |-> Round(left, d), w |-> Round(right - left, d),
     y |-> Round(top, d), h |-> Round(bottom - top, d)]

\* variant: the face lists are built in the reverse of the item order
BatchFacesReversed(b) ==
    [i \in 1..Len(b["prediction"]) |->
        LET faces == b["prediction"][Len(b["prediction"]) + 1 - i]
        IN  [j \in 1..Len(faces) |->
                to_detected_face(faces[j][1], faces[j][2], faces[j][3], faces[j][4],
                                 CoordDen)]]

\* lines 162-164
BatchFaces(b) ==
    [i \in 1..Len(b["prediction"]) |->
        [j \in 1..Len(b["prediction"][i]) |->
            to_detected_face(b["prediction"][i][j][1], b["prediction"][i][j][2],
                             b["prediction"][i][j][3], b["prediction"][i][j][4],
                             CoordDen)]]

SetMin(S) == CHOOSE m \in S : \A e \in S : m <= e
SetMax(S) == CHOOSE m \in S : \A e \in S : m >= e

\* the inverse of the rotation by `angle` about the centre of the input
\* square, applied to one corner point
RotateBack(pt, angle) ==
    CASE angle % 360 = 0 -> pt
      [] angle % 360 = 90 -> <<pt[2], input_size - pt[1]>>
      [] angle % 360 = 180 -> <<input_size - pt[1], input_size - pt[2]>>
      [] angle % 360 = 270 -> <<input_size - pt[2], pt[1]>>

\* lib.faces_detect.rotate_landmarks on a bounding box: the axis-aligned
\* box around the four corners mapped back
rotate_landmarks(face, rotmat) ==
    LET corners == { RotateBack(<<px, py>>, rotmat[1]) :
                        px \in {Left(face), Right(face)},
                        py \in {Top(face), Bottom(face)} }
        xs == { c[1] : c \in corners }
        ys == { c[2] : c \in corners }
    IN  [x |-> SetMin(xs), w |-> SetMax(xs) - SetMin(xs),
         y |-> SetMin(ys), h |-> SetMax(ys) - SetMin(ys)]

\* Detector._rotate_rect
_rotate_rect(bounding_box, rotation_matrix) ==
    rotate_landmarks(bounding_box, rotation_matrix)

\* line 166: the test that guards the rotation pass
AnyRotation(b, faces) ==
    /\ \E i \in 1..Len(b["rotmat"]) : MatAny(b["rotmat"][i])
    /\ \E i \in 1..Len(faces) : faces[i] # <<>>

\* lines 166-169
RotateFaces(b, faces) ==
    IF AnyRotation(b, faces)
    THEN [i \in 1..Len(faces) |->
            [j \in 1..Len(faces[i]) |->
                IF MatAny(b["rotmat"][i])
                THEN _rotate_rect(faces[i][j], b["rotmat"][i])
                ELSE faces[i][j]]]
    ELSE faces

\* variant: the padding is not taken off before the division by scale
ScaleBackKeepsPad(face, scale, pad) ==
    to_detected_face(Left(face) * scale[2], Top(face) * scale[2],
                     Right(face) * scale[2], Bottom(face) * scale[2],
                     scale[1])

\* lines 172-175: one record scaled back out to the original frame;
\* (c - pad) / scale = (c - pad) * scale[2] / scale[1]
ScaleBack(face, scale, pad) ==
    to_detected_face((Left(face) - pad[1]) * scale[2],
                     (Top(face) - pad[2]) * scale[2],
                     (Right(face) - pad[1]) * scale[2],
                     (Bottom(face) - pad[2]) * scale[2],
                     scale[1])

\* lines 172-179
ScaleBackAll(b, faces) ==
    [i \in 1..Len(faces) |->
        [j \in 1..Len(faces[i]) |-> ScaleBack(faces[i][j], b["scale"][i], b["pad"][i])]]

\* variant: height and width of the frame are taken the wrong way round
InFrameSwapped(face, dim) ==
    /\ Right(face) > 0 /\ Left(face) < dim[1]
    /\ Bottom(face) > 0 /\ Top(face) < dim[2]

\* lines 293-294: the test a record passes to stay; dim = (height, width)
InFrame(face, dim) ==
    /\ Right(face) > 0 /\ Left(face) < dim[2]
    /\ Bottom(face) > 0 /\ Top(face) < dim[1]

\* lines 292-294: [face for face in faces if ...]
RECURSIVE FacesInFrame(_, _)
FacesInFrame(faces, dim) ==
    IF faces = <<>> THEN <<>>
    ELSE IF InFrame(Head(faces), dim)
    THEN <<Head(faces)>> \o FacesInFrame(Tail(faces), dim)
    ELSE FacesInFrame(Tail(faces), dim)

\* Detector._remove_zero_sized_faces, as the new batch["detected_faces"]
_remove_zero_sized_faces(b) ==
    [i \in 1..Len(b["image"]) |->
        FacesInFrame(b["detected_faces"][i], b["image"][i].shape)]

\* the largest r with r * r <= n
ISqrt(n) == CHOOSE r \in 0..n : r * r <= n /\ (r + 1) * (r + 1) > n

\* variant: the comparison with the threshold is <=
TooSmallOrEqual(face, size) == face.w * face.w + face.h * face.h <= size * size

\* lines 304-305: (w ** 2 + h ** 2) ** 0.5 < size, for an integer size;
\* the square root is below an integer exactly when its floor is
TooSmall(face, size) == ISqrt(face.w * face.w + face.h * face.h) < size

\* lines 302-309: the inner loop over one image's faces
RECURSIVE ThisImage(_, _)
ThisImage(faces, size) ==
    IF faces = <<>> THEN <<>>
    ELSE IF TooSmall(Head(faces), size)
    THEN ThisImage(Tail(faces), size)
    ELSE <<Head(faces)>> \o ThisImage(Tail(faces), size)

\* Detector._filter_small_faces
_filter_small_faces(detected_faces, size) ==
    [i \in 1..Len(detected_faces) |-> ThisImage(detected_faces[i], size)]

\* lines 183-184
MinSizeFilter(detected_faces, size) ==
    IF size > 0 /\ detected_faces # <<>>
    THEN _filter_small_faces(detected_faces, size)
    ELSE detected_faces

\* Extractor._remove_invalid_keys and Extractor._dict_lists_to_list_dicts
_dict_lists_to_list_dicts(b, keys) ==
    [i \in 1..Len(b["filename"]) |-> [k \in keys |-> b[k][i]]]

\* Detector.finalize on a batch dict: the records it yields, in order
finalize(b, size) ==
    LET faces == ScaleBackAll(b, RotateFaces(b, BatchFaces(b)))
        b1 == DictSet(b, "detected_faces", faces)
        b2 == DictSet(b1, "detected_faces", _remove_zero_sized_faces(b1))
        b3 == DictSet(b2, "detected_faces", MinSizeFilter(b2["detected_faces"], size))
    IN  _dict_lists_to_list_dicts(b3, {"detected_faces", "filename", "image"})

\* the values handed to finalize that are no dict: the "EOF" marker, None
Sentinels == {EOF, None}

\* isinstance(batch, dict)
IsDict(b) == b \notin Sentinels

\* Detector.finalize as the generator it is (its body holds a yield):
\* `yields` is what a consumer iterating it receives, `value` what the
\* generator returns when it ends.  Line 157 returns the batch from the
\* generator before anything is yielded.
finalize_generator(b, size) ==
    IF ~IsDict(b)
    THEN [yields |-> <<>>, value |-> b]
    ELSE [yields |-> finalize(b, size), value |-> None]

(***************************************************************************)
(* Inputs.                                                                 *)
(***************************************************************************)
RotChars == {"0", "1", "8", "9", ",", "-"}

RotWords == { <<"o", "n">>, <<"O", "n">>, <<"O", "N">>, <<"o", "f", "f">>,
              <<"O", "f", "f">>, <<"O", "F", "F">>, <<"n", "o">> }

\* the rotation arguments Detector.__init__ is constructed with
RotationInputs ==
    {None} \cup { Str(s) : s \in RotWords }
           \cup { Str(s) : s \in UNION { [1..n -> RotChars] : n \in 0..MaxRotLen } }

\* the rotation options of the detectors that run the search
DetectRotations ==
    { None, Str(<<"o", "n">>), Str(<<"1", "8", "0">>),
      Str(<<"9", "0", ",", "1", "8", "0">>) }

\* frame sizes (height, width)
Frames == { <<4, 2>>, <<8, 16>> }

MinSizes == {0, 3}

Keys == {"filename", "image", "detected_faces"}

\* the item at position i of the queue, holding the keys `keys`
MakeItem(i, keys, frame) ==
    [k \in keys |->
        CASE k = "filename" -> i
          [] k = "image" -> [id |-> i, shape |-> frame]
          [] OTHER -> <<>>]

\* queues of n items, well formed or missing keys, followed by the marker
Queues(n, keysets) ==
    { [i \in 1..n |-> MakeItem(i, c[i][1], c[i][2])] \o <<EOF>> :
        c \in [1..n -> keysets \X Frames] }

\* raw boxes, in units of 1/CoordDen: a box of all zeros, a box inside the
\* image, a box of zero width, and a box at the left edge of the input
ZeroBox == <<0, 0, 0, 0>>
BoxA == <<5, 4, 11, 12>>
BoxB == <<8, 2, 8, 14>>
BoxC == <<0, 4, 3, 10>>

\* what the backend may return for one item
Preds == { <<>>, <<ZeroBox>>, <<BoxA>>, <<BoxC, BoxB>> }

\* the plugin's process_input: the feed is the stack of compiled images
process_input(b) ==
    DictSet(b, "feed",
            [i \in 1..Len(b["scaled_image"]) |->
                [id |-> b["scaled_image"][i].id, content |-> "image", angle |-> 0]])

Idle(n) == [i \in 1..n |-> <<>>]

(***************************************************************************)
(* Construction: Detector.__init__ parsing the rotation option.            *)
(***************************************************************************)
InitRot ==
    /\ pc = "new"
    /\ rotation \in RotationInputs
    /\ self_rotation = <<>>
    /\ min_size \in {0}
    /\ batchsize = 1
    /\ queue = <<>>
    /\ returned = <<>>
    /\ batch = EmptyDict
    /\ found_faces = <<>>
    /\ angle_idx = 0
    /\ calls = 0
    /\ found_angle = <<>>
    /\ seen = <<>>
    /\ rect_rotated = <<>>
    /\ output = <<>>

\* variant: the ValueError is caught and the detector falls back to [0]
ConstructFallsBack ==
    /\ pc = "new"
    /\ pc' = "constructed"
    /\ self_rotation' = IF _get_rotation_angles(rotation).ok
                        THEN _get_rotation_angles(rotation).angles
                        ELSE <<0>>
    /\ UNCHANGED <<rotation, min_size, batchsize, queue, returned, batch,
                   found_faces, angle_idx, calls, found_angle, seen, rect_rotated,
                   output>>

\* Detector.__init__: a ValueError of the parser leaves no Detector
Construct ==
    /\ pc = "new"
    /\ LET r == _get_rotation_angles(rotation)
       IN  /\ pc' = IF r.ok THEN "constructed" ELSE "config_error"
           /\ self_rotation' = r.angles
    /\ UNCHANGED <<rotation, min_size, batchsize, queue, returned, batch,
                   found_faces, angle_idx, calls, found_angle, seen, rect_rotated,
                   output>>

NextRot == Construct

SpecRot == InitRot /\ [][NextRot]_vars

(***************************************************************************)
(* Batch assembly: repeated get_batch calls on one queue.                  *)
(***************************************************************************)
InitBatch ==
    /\ pc = "assemble"
    /\ rotation = None
    /\ self_rotation = <<0>>
    /\ min_size = 0
    /\ batchsize \in 1..MaxBatch
    /\ queue \in UNION { Queues(n, SUBSET Keys) : n \in 0..MaxQueue }
    /\ returned = <<>>
    /\ batch = EmptyDict
    /\ found_faces = <<>>
    /\ angle_idx = 0
    /\ calls = 0
    /\ found_angle = <<>>
    /\ seen = <<>>
    /\ rect_rotated = <<>>
    /\ output = <<>>

\* one call of get_batch; a call on an empty queue blocks in queue.get()
GetBatch ==
    /\ pc = "assemble"
    /\ LET r == get_batch(queue)
       IN  /\ ~r.blocked
           /\ queue' = r.queue
           /\ returned' = Append(returned, [raised |-> r.raised,
                                            exhausted |-> r.exhausted,
                                            batch |-> r.batch])
           /\ batch' = r.batch
           /\ pc' = IF r.raised THEN "failed" ELSE "assemble"
    /\ UNCHANGED <<rotation, self_rotation, min_size, batchsize, found_faces,
                   angle_idx, calls, found_angle, seen, rect_rotated, output>>

NextBatch == GetBatch

SpecBatch == InitBatch /\ [][NextBatch]_vars

(***************************************************************************)
(* Detection: _predict on one assembled batch, then finalize.              *)
(***************************************************************************)
Init ==
    /\ pc = "predict"
    /\ rotation \in DetectRotations
    /\ self_rotation = _get_rotation_angles(rotation).angles
    /\ min_size \in MinSizes
    /\ batchsize \in 1..MaxItems
    /\ \E odd \in Frames, even \in Frames :
          LET q == [i \in 1..batchsize |->
                      MakeItem(i, Keys, IF i % 2 = 1 THEN odd ELSE even)] \o <<EOF>>
          IN  /\ batch = process_input(get_batch(q).batch)
              /\ queue = get_batch(q).queue
    /\ returned = <<>>
    /\ found_faces = <<>>
    /\ angle_idx = 0
    /\ calls = 0
    /\ found_angle = <<>>
    /\ seen = <<>>
    /\ rect_rotated = <<>>
    /\ output = <<>>

\* lines 206-207
PredictStart ==
    /\ pc = "predict"
    /\ batch' = DictSet(batch, "rotmat", Idle(Len(batch["feed"])))
    /\ found_faces' = Idle(Len(batch["feed"]))
    /\ found_angle' = [i \in 1..Len(batch["feed"]) |-> -1]
    /\ seen' = [i \in 1..Len(batch["feed"]) |-> [box |-> FALSE, any |-> FALSE]]
    /\ angle_idx' = 1
    /\ pc' = "angle"
    /\ UNCHANGED <<rotation, self_rotation, min_size, batchsize, queue,
                   returned, calls, rect_rotated, output>>

\* variant: an error of the backend is caught and the angle is tried again
LoopRunsAfterError == pc \in {"angle", "raised"}

\* lines 208-221 hold no try: the loop body runs only while no call of
\* self.predict has raised
LoopRuns == pc = "angle"

\* variant: the loop has no early exit
LoopEndsAtLastAngle(found, idx) == idx = Len(self_rotation)

\* lines 219-221 and the end of the for loop: the loop is left
LoopEnds(found, idx) == AllFound(found) \/ idx = Len(self_rotation)

\* lines 208-221: one iteration of the loop over self.rotation, with the
\* backend's prediction p for the rotated feed
PredictAngle ==
    /\ LoopRuns
    /\ \E p \in [1..Len(batch["feed"]) -> Preds] :
          LET angle == self_rotation[angle_idx]
              rotated == _rotate_batch(batch, angle)
              merged == MergeFound(p, found_faces)
          IN  /\ batch' = DictSet(rotated, "prediction", p)
              /\ found_faces' = merged
              /\ found_angle' = [i \in 1..Len(merged) |->
                                   IF ~ArrAny(found_faces[i]) THEN angle
                                   ELSE found_angle[i]]
              /\ seen' = [i \in 1..Len(merged) |->
                            [box |-> seen[i].box \/ Len(p[i]) > 0,
                             any |-> seen[i].any \/ ArrAny(p[i])]]
              /\ pc' = IF LoopEnds(merged, angle_idx) THEN "return" ELSE "angle"
              /\ angle_idx' = IF LoopEnds(merged, angle_idx)
                              THEN angle_idx ELSE angle_idx + 1
    /\ calls' = calls + 1
    /\ UNCHANGED <<rotation, self_rotation, min_size, batchsize, queue,
                   returned, rect_rotated, output>>

\* lines 210-211 when self.predict raises: the batch has been rotated, the
\* exception leaves the loop and _predict, and nothing is returned
PredictRaises ==
    /\ LoopRuns
    /\ batch' = _rotate_batch(batch, self_rotation[angle_idx])
    /\ calls' = calls + 1
    /\ pc' = "raised"
    /\ UNCHANGED <<rotation, self_rotation, min_size, batchsize, queue,
                   returned, found_faces, angle_idx, found_angle, seen, rect_rotated,
                   output>>

\* lines 223-226
PredictReturn ==
    /\ pc = "return"
    /\ batch' = DictSet(batch, "prediction", found_faces)
    /\ pc' = "finalize"
    /\ UNCHANGED <<rotation, self_rotation, min_size, batchsize, queue,
                   returned, found_faces, angle_idx, calls, found_angle, seen,
                   rect_rotated, output>>

\* Detector.finalize, consumed to its end
Finalize ==
    /\ pc = "finalize"
    /\ output' = finalize(batch, min_size)
    /\ rect_rotated' = [i \in 1..Len(batch["prediction"]) |->
                          /\ AnyRotation(batch, BatchFaces(batch))
                          /\ MatAny(batch["rotmat"][i])
                          /\ batch["prediction"][i] # <<>>]
    /\ pc' = "done"
    /\ UNCHANGED <<rotation, self_rotation, min_size, batchsize, queue,
                   returned, batch, found_faces, angle_idx, calls, found_angle, seen>>

Next == PredictStart \/ PredictAngle \/ PredictRaises \/ PredictReturn \/ Finalize

Spec == Init /\ [][Next]_vars

(***************************************************************************)
(* The finalizer on its own: finalize called on any value a stage may hand *)
(* it, a marker or a batch as _predict leaves it.                          *)
(***************************************************************************)
\* the rotation matrices a batch may carry
Matrices == { <<>>, <<90>>, <<180>>, <<270>> }

\* the batches of n items as they leave _predict
PredictedBatches(n) ==
    { DictSet(DictSet(process_input(
                  get_batch([i \in 1..n |-> MakeItem(i, Keys, f[i])] \o <<EOF>>).batch),
              "prediction", p), "rotmat", m) :
        f \in [1..n -> Frames], p \in [1..n -> Preds], m \in [1..n -> Matrices] }

InitFin ==
    /\ pc = "finalize"
    /\ rotation = None
    /\ self_rotation = <<0>>
    /\ min_size \in MinSizes
    /\ batchsize \in 1..MaxItems
    /\ queue = <<>>
    /\ returned = <<>>
    /\ batch \in Sentinels \cup PredictedBatches(batchsize)
    /\ found_faces = <<>>
    /\ angle_idx = 0
    /\ calls = 0
    /\ found_angle = <<>>
    /\ seen = <<>>
    /\ rect_rotated = <<>>
    /\ output = <<>>

\* finalize is called and its generator consumed to the end: output is
\* what the consumer received, returned the generator's return value
FinalizeCall ==
    /\ pc = "finalize"
    /\ output' = finalize_generator(batch, min_size).yields
    /\ returned' = <<finalize_generator(batch, min_size).value>>
    /\ pc' = "done"
    /\ UNCHANGED <<rotation, self_rotation, min_size, batchsize, queue, batch,
                   found_faces, angle_idx, calls, found_angle, seen, rect_rotated>>

NextFin == FinalizeCall

SpecFin == InitFin /\ [][NextFin]_vars

(***************************************************************************)
(* The geometry on its own: to_detected_face on raw boxes, the compilation *)
(* of a frame, and the way of a frame box into the model input and back.   *)
(***************************************************************************)
\* raw boxes <<left, top, right, bottom>> in units of 1/RawDen
RawBoxes == [1..4 -> (0 - MaxRaw)..MaxRaw]

\* frame sizes (height, width)
FrameSizes == (1..MaxDim) \X (1..MaxDim)

\* integer boxes inside a frame; the bottom is the top or the frame's edge
FrameBoxes(frame) ==
    { box \in (0..frame[2]) \X (0..frame[1]) \X (0..frame[2]) \X (0..frame[1]) :
        box[1] <= box[3] /\ box[4] \in {box[2], frame[1]} }

\* where the compiled image shows a point of the frame: the frame is
\* resized by scale and set pad pixels in from the left and top, so a
\* coordinate c lies at c * scale + pad; the result is over scale[2]
InModelInput(box, scale, pad) ==
    << box[1] * scale[1] + pad[1] * scale[2],
       box[2] * scale[1] + pad[2] * scale[2],
       box[3] * scale[1] + pad[1] * scale[2],
       box[4] * scale[1] + pad[2] * scale[2] >>

InitGeom ==
    /\ \/ /\ pc = "to_detected_face"
          /\ batch \in { [box |-> b] : b \in RawBoxes }
       \/ /\ pc = "compile"
          /\ batch \in { [frame |-> f] : f \in FrameSizes }
       \/ /\ pc = "map"
          /\ batch \in UNION { { [frame |-> f, box |-> b] : b \in FrameBoxes(f) } :
                                 f \in FrameSizes }
    /\ rotation = None
    /\ self_rotation = <<0>>
    /\ min_size = 0
    /\ batchsize = 1
    /\ queue = <<>>
    /\ returned = <<>>
    /\ found_faces = <<>>
    /\ angle_idx = 0
    /\ calls = 0
    /\ found_angle = <<>>
    /\ seen = <<>>
    /\ rect_rotated = <<>>
    /\ output = <<>>

\* to_detected_face on one raw box
ToDetectedFace ==
    /\ pc = "to_detected_face"
    /\ output' = << to_detected_face(batch.box[1], batch.box[2], batch.box[3],
                                     batch.box[4], RawDen) >>
    /\ pc' = "face"
    /\ UNCHANGED <<rotation, self_rotation, min_size, batchsize, queue, returned,
                   batch, found_faces, angle_idx, calls, found_angle, seen, rect_rotated>>

\* _compile_detection_image on one frame: output is <<image, scale, pad>>,
\* returned the image between _scale_image and _pad_image
CompileImage ==
    /\ pc = "compile"
    /\ LET image == [id |-> 1, shape |-> batch.frame]
       IN  /\ output' = << _compile_detection_image(image) >>
           /\ returned' = << _scale_image(image, batch.frame, _set_scale(batch.frame)) >>
    /\ pc' = "compiled"
    /\ UNCHANGED <<rotation, self_rotation, min_size, batchsize, queue, batch,
                   found_faces, angle_idx, calls, found_angle, seen, rect_rotated>>

\* lines 162-164 and 172-175 on the exact image of a frame box: rounded
\* in the model input, mapped back with scale and pad, rounded in the frame
MapBack ==
    /\ pc = "map"
    /\ LET scale == _set_scale(batch.frame)
           pad == _set_padding(batch.frame, scale)
           raw == InModelInput(batch.box, scale, pad)
           face == to_detected_face(raw[1], raw[2], raw[3], raw[4], scale[2])
       IN  output' = << ScaleBack(face, scale, pad) >>
    /\ pc' = "mapped"
    /\ UNCHANGED <<rotation, self_rotation, min_size, batchsize, queue, returned,
                   batch, found_faces, angle_idx, calls, found_angle, seen, rect_rotated>>

NextGeom == ToDetectedFace \/ CompileImage \/ MapBack

SpecGeom == InitGeom /\ [][NextGeom]_vars

(***************************************************************************)
(* Properties of the rotation search.                                      *)
(***************************************************************************)
AfterLoop == pc \in {"return", "finalize", "done"}

\* every entry of found_faces holds at least one box
AllNonEmpty(found) == \A i \in 1..Len(found) : Len(found[i]) > 0

\* the matrix the batch should carry for a prediction produced at `angle`
MatrixOf(angle) == IF angle = 0 THEN <<>> ELSE <<angle>>

\* C1, as stated: _predict invokes the backend at most K times (K the
\* length of the angle list); no call follows a merge after which every
\* found_faces entry holds at least one box; and the loop is left only
\* after such a merge or after the K-th call.  Together: exactly i + 1
\* calls, i the index of the earliest such merge, and K calls without one.
C1_CallsUntilAllNonEmpty ==
    /\ [](calls <= Len(self_rotation))
    /\ [](AfterLoop => AllNonEmpty(found_faces) \/ calls = Len(self_rotation))
    /\ [][calls' > calls /\ calls > 0 => ~AllNonEmpty(found_faces)]_vars

\* C1, amended: the same with "found" read as the code tests it, an entry
\* with at least one non-zero coordinate (numpy's .any()): at most K calls,
\* none after a merge that leaves every entry with a non-zero coordinate,
\* and the loop is left only after such a merge or after the K-th call.
C1_CallsUntilAllFound ==
    /\ [](calls <= Len(self_rotation))
    /\ [](AfterLoop => AllFound(found_faces) \/ calls = Len(self_rotation))
    /\ [][calls' > calls /\ calls > 0 => ~AllFound(found_faces)]_vars

\* C1 witness: a search over four angles that stops after the second,
\* whose merge is the first to leave every item found
C1_Witness ==
    /\ pc = "done"
    /\ Len(self_rotation) = 4
    /\ calls = 2
    /\ AllFound(found_faces)

\* C2, as stated: once found_faces[i] holds at least one box it is never
\* replaced, and it is the prediction stored when _predict returns.
C2_NonEmptyImmutable ==
    [][\A i \in 1..Len(found_faces) :
          Len(found_faces[i]) > 0 =>
             /\ found_faces'[i] = found_faces[i]
             /\ pc' = "finalize" => batch'["prediction"][i] = found_faces[i]]_vars

\* C2, amended: once found_faces[i] holds a box with a non-zero coordinate
\* it is never replaced, whatever the backend returns at later angles, and
\* it is the prediction stored when _predict returns.
C2_FoundImmutable ==
    [][\A i \in 1..Len(found_faces) :
          ArrAny(found_faces[i]) =>
             /\ found_faces'[i] = found_faces[i]
             /\ pc' = "finalize" => batch'["prediction"][i] = found_faces[i]]_vars

\* C2 witness: the loop is left with an item found at angle 0 for which the
\* backend's last call returned a different prediction with a face in it
C2_Witness ==
    /\ pc = "return"
    /\ calls >= 2
    /\ \E i \in 1..Len(found_faces) :
          /\ found_angle[i] = 0
          /\ ArrAny(found_faces[i])
          /\ ArrAny(batch["prediction"][i])
          /\ batch["prediction"][i] # found_faces[i]

\* C3: when _predict has returned, every item with a non-empty prediction
\* carries the rotation matrix of the angle whose call produced it: empty
\* for angle 0, the matrix built for the angle otherwise.
C3_MatrixOfProducingAngle ==
    pc = "finalize" =>
        \A i \in 1..Len(batch["prediction"]) :
            Len(batch["prediction"][i]) > 0 =>
                batch["rotmat"][i] = MatrixOf(found_angle[i])

\* the records finalize yields for item i when no rotation is applied
Unrotated(i) ==
    LET faces == ScaleBackAll(batch, BatchFaces(batch))
        kept == _remove_zero_sized_faces(DictSet(batch, "detected_faces", faces))
    IN  MinSizeFilter(kept, min_size)[i]

\* C4: for an item whose final prediction was produced at angle 0, finalize
\* does not apply _rotate_rect and yields the inverse-mapped boxes of the
\* prediction with no rotation, however many angles were searched.
C4_RotationIdentity ==
    pc = "done" =>
        \A i \in 1..Len(output) :
            found_angle[i] = 0 /\ Len(batch["prediction"][i]) > 0 =>
                /\ ~rect_rotated[i]
                /\ output[i]["detected_faces"] = Unrotated(i)

\* C5: at every angle # 0 an item that has a found face from any previous
\* angle is fed a zero placeholder and keeps its rotation matrix; every
\* other item is rotated and gets the matrix of the current angle.  "Has a
\* found face" is read as the code tests it (.any()).
C5_PlaceholderForFound ==
    [][pc = "angle" /\ calls' = calls + 1 /\ self_rotation[angle_idx] # 0 =>
          \A i \in 1..Len(found_faces) :
              IF ArrAny(found_faces[i])
              THEN /\ batch'["feed"][i].content = "zeros"
                   /\ batch'["rotmat"][i] = batch["rotmat"][i]
              ELSE /\ batch'["feed"][i].content = "rotated"
                   /\ batch'["rotmat"][i] = <<self_rotation[angle_idx]>>]_vars

(***************************************************************************)
(* Properties of the finalizer.                                            *)
(***************************************************************************)
\* the records of every item that passed the frame-bounds filter
FrameFiltered ==
    _remove_zero_sized_faces(
        DictSet(batch, "detected_faces",
                ScaleBackAll(batch, RotateFaces(batch, BatchFaces(batch)))))

\* the frame of the i-th output record, (height, width)
FrameOf(i) == output[i]["image"].shape

\* C6: no record of zero width or zero height, and no record lying
\* entirely outside its frame, is among the detected_faces finalize yields.
C6_NoZeroSizedOrOutside ==
    pc = "done" =>
        \A i \in 1..Len(output) :
            \A j \in 1..Len(output[i]["detected_faces"]) :
                LET face == output[i]["detected_faces"][j]
                IN  /\ Left(face) # Right(face)
                    /\ Top(face) # Bottom(face)
                    /\ ~(\/ Right(face) <= 0
                         \/ Left(face) >= FrameOf(i)[2]
                         \/ Bottom(face) <= 0
                         \/ Top(face) >= FrameOf(i)[1])

\* a record's diagonal reaches the threshold: w^2 + h^2 >= size^2
DiagonalAtLeast(face, size) == face.w * face.w + face.h * face.h >= size * size

\* C7: with min_size > 0 the records finalize yields for an item are
\* exactly the frame-filtered records whose diagonal is at least min_size,
\* in their order; with min_size = 0 they are all the frame-filtered ones.
C7_MinSizeFilter ==
    pc = "done" =>
        \A i \in 1..Len(output) :
            LET Kept(face) == min_size = 0 \/ DiagonalAtLeast(face, min_size)
            IN  output[i]["detected_faces"] = SelectSeq(FrameFiltered[i], Kept)

\* C7 witness: with a threshold set, one record is dropped for its size
\* and one whose diagonal equals the threshold is kept
C7_Witness ==
    /\ pc = "done"
    /\ min_size > 0
    /\ \E i \in 1..Len(output) :
          Len(output[i]["detected_faces"]) < Len(FrameFiltered[i])
    /\ \E i \in 1..Len(output) :
          \E j \in 1..Len(output[i]["detected_faces"]) :
              LET face == output[i]["detected_faces"][j]
              IN  face.w * face.w + face.h * face.h = min_size * min_size

(***************************************************************************)
(* Properties of the rotation option parser.                               *)
(***************************************************************************)
\* the option is one token that int() reads as a positive step
IsStep(chars) ==
    /\ Len(Split(chars)) = 1
    /\ IsInt(chars)
    /\ ToInt(chars) > 0

\* the option is a comma-separated list of two or more non-zero integers
IsAngleList(chars) ==
    /\ Len(Split(chars)) >= 2
    /\ \A i \in 1..Len(Split(chars)) :
          IsInt(Split(chars)[i]) /\ ToInt(Split(chars)[i]) # 0

\* C8: the angle list begins with 0 and holds 0 nowhere else; it is [0]
\* for None, "" and "off", [0, 90, 180, 270] for "on", the multiples of s
\* below 360 for a single positive step s, and 0 followed by the given
\* angles in their order for a list of two or more non-zero angles.
C8_AngleList ==
    pc = "constructed" =>
        /\ Len(self_rotation) >= 1
        /\ self_rotation[1] = 0
        /\ \A i \in 2..Len(self_rotation) : self_rotation[i] # 0
        /\ rotation.none \/ rotation.chars \in {<<>>, Off} =>
              self_rotation = <<0>>
        /\ ~rotation.none /\ rotation.chars = On =>
              self_rotation = <<0, 90, 180, 270>>
        /\ ~rotation.none /\ IsStep(rotation.chars) =>
              LET s == ToInt(rotation.chars)
              IN  /\ Len(self_rotation) =
                        Cardinality({k \in 0..359 : k = 0 \/ (s < 360 /\ k * s < 360)})
                  /\ \A i \in 1..Len(self_rotation) :
                        self_rotation[i] = (i - 1) * s /\ self_rotation[i] < 360
        /\ ~rotation.none /\ IsAngleList(rotation.chars) =>
              LET tokens == Split(rotation.chars)
              IN  /\ Len(self_rotation) = Len(tokens) + 1
                  /\ \A i \in 1..Len(tokens) :
                        self_rotation[i + 1] = ToInt(tokens[i])

\* C8 witness: the step option "18" was parsed into 20 angles up to 342
C8_Witness ==
    /\ pc = "constructed"
    /\ rotation = Str(<<"1", "8">>)
    /\ Len(self_rotation) = 20
    /\ self_rotation[20] = 342

(***************************************************************************)
(* Properties of the batch assembler.                                      *)
(***************************************************************************)
Last(s) == s[Len(s)]

\* the number of items in front of the end marker
RECURSIVE ItemsBeforeEOF(_)
ItemsBeforeEOF(q) ==
    IF q = <<>> \/ Head(q) = EOF THEN 0 ELSE 1 + ItemsBeforeEOF(Tail(q))

\* the images of all batches returned so far, in order
RECURSIVE Delivered(_)
Delivered(rs) ==
    IF rs = <<>> THEN <<>>
    ELSE (IF "image" \in DOMAIN Head(rs).batch THEN Head(rs).batch["image"] ELSE <<>>)
         \o Delivered(Tail(rs))

NoneRaised == \A k \in 1..Len(returned) : ~returned[k].raised

\* what one completed call did, seen from the queue before it
CallDelivers(q, r, q2) ==
    LET n == ItemsBeforeEOF(q)
        m == IF n < batchsize THEN n ELSE batchsize
    IN  /\ IF m = 0 THEN r.batch = EmptyDict
           ELSE /\ Len(r.batch["image"]) = m
                /\ Len(r.batch["image"]) <= batchsize
                /\ \A i \in 1..m : r.batch["image"][i] = q[i]["image"]
        /\ r.exhausted <=> (n < batchsize)
        /\ r.exhausted <=> (Len(q) - Len(q2) = m + 1 /\ q[m + 1] = EOF)
        /\ ~r.exhausted => Len(q) - Len(q2) = m
        /\ q2 = SubSeq(q, Len(q) - Len(q2) + 1, Len(q))

\* C9: repeated get_batch calls deliver every item once, in queue order,
\* in batches of at most batchsize items; a call returns exhausted exactly
\* when it dequeued the end marker, dequeues nothing after it, and returns
\* an empty batch when the marker is the first thing it dequeues.
C9_BatchesInOrder ==
    /\ [](NoneRaised =>
            /\ \A i \in 1..Len(Delivered(returned)) : Delivered(returned)[i].id = i
            /\ \A i \in 1..Len(queue) :
                  queue[i] # EOF /\ "image" \in DOMAIN queue[i] =>
                      queue[i]["image"].id = Len(Delivered(returned)) + i
            /\ \A k \in 1..Len(returned) : returned[k].exhausted => k = Len(returned)
            /\ (returned # <<>> /\ Last(returned).exhausted) => queue = <<>>)
    /\ [][returned' # returned /\ ~Last(returned').raised =>
             CallDelivers(queue, Last(returned'), queue')]_vars

\* C9 witness: two items with a batch cap of two; the second call dequeues
\* the end marker first and returns (True, empty batch)
C9_Witness ==
    /\ batchsize = 2
    /\ Len(returned) = 2
    /\ ~returned[1].exhausted
    /\ Len(returned[1].batch["image"]) = 2
    /\ returned[2].exhausted
    /\ returned[2].batch = EmptyDict
    /\ queue = <<>>

\* C10: a call that dequeues an item lacking one of the required fields
\* raises instead of returning a batch.
C10_MalformedItemRaises ==
    [][returned' # returned =>
          LET d == Len(queue) - Len(queue')
          IN  (\E i \in 1..d : queue[i] # EOF /\ DOMAIN queue[i] # Keys)
                 => Last(returned').raised]_vars

(***************************************************************************)
(* Properties of a failing backend.                                        *)
(***************************************************************************)
\* C11: once self.predict has raised at some angle the error has left
\* _predict: the backend is not invoked again for the batch at any angle,
\* _predict assigns no result (found_faces is never stored as the batch's
\* prediction), finalize is never reached and no record is yielded.
C11_ErrorAbandonsBatch ==
    /\ [](pc = "raised" => output = <<>>)
    /\ [][pc = "raised" =>
            /\ pc' = "raised"
            /\ calls' = calls
            /\ batch' = batch
            /\ output' = output]_vars

\* C11 witness: the backend raised at the second angle of four, after a
\* first call that had found a face for one item and none for the other
C11_Witness ==
    /\ pc = "raised"
    /\ Len(self_rotation) = 4
    /\ calls = 2
    /\ angle_idx = 2
    /\ \E i, j \in 1..Len(found_faces) :
          ArrAny(found_faces[i]) /\ found_faces[j] = <<>>

(***************************************************************************)
(* Properties of the order and shape of the output.                        *)
(***************************************************************************)
\* the batch cut down to its k-th item
OnlyItem(b, k) == [key \in DOMAIN b |-> <<b[key][k]>>]

\* C12: for a batch of n items finalize yields exactly n records; the k-th
\* record carries the filename and the image of the k-th item taken from
\* the queue, its faces are the ones finalize derives from the k-th item
\* alone, and its fields are exactly detected_faces, filename and image.
C12_OneRecordPerItemInOrder ==
    pc = "done" =>
        /\ Len(output) = batchsize
        /\ \A k \in 1..Len(output) :
              /\ DOMAIN output[k] = {"detected_faces", "filename", "image"}
              /\ output[k]["filename"] = k
              /\ output[k]["image"].id = k
              /\ output[k]["image"] = batch["image"][k]
              /\ output[k]["detected_faces"] =
                    finalize(OnlyItem(batch, k), min_size)[1]["detected_faces"]

\* C12 witness: two records were yielded with different, non-empty faces,
\* the second item's records having been rotated back
C12_Witness ==
    /\ pc = "done"
    /\ Len(output) = 2
    /\ output[1]["detected_faces"] # <<>>
    /\ output[2]["detected_faces"] # <<>>
    /\ output[1]["detected_faces"] # output[2]["detected_faces"]
    /\ ~rect_rotated[1]
    /\ rect_rotated[2]

\* C13: when finalize is given a value that is not a dict (the "EOF"
\* marker, None) the consumer of its output receives that value itself and
\* nothing else.
C13_SentinelPassedThrough ==
    pc = "done" /\ ~IsDict(batch) => output = <<batch>>

\* the records of every item before the frame-bounds filter
Mapped == ScaleBackAll(batch, RotateFaces(batch, BatchFaces(batch)))

\* the record overlaps the frame dim = (height, width): none of right <= 0,
\* left >= width, bottom <= 0, top >= height
Overlaps(face, dim) ==
    ~(\/ Right(face) <= 0
      \/ Left(face) >= dim[2]
      \/ Bottom(face) <= 0
      \/ Top(face) >= dim[1])

NonIntegerToken(tok) ==
    \/ tok = <<>>
    \/ tok = <<"-">>
    \/ tok[1] \notin Digits \cup {"-"}
    \/ \E i \in 2..Len(tok) : tok[i] \notin Digits

\* the option is a string other than "", "on" and "off" (in any case) with
\* a token between its commas that is no integer
Malformed(rot) ==
    /\ ~rot.none
    /\ rot.chars # <<>>
    /\ Lower(rot.chars) \notin {On, Off}
    /\ \E i \in 1..Len(Split(rot.chars)) : NonIntegerToken(Split(rot.chars)[i])

\* C14: a rotation option with a non-integer token (the whole option not
\* being "on" or "off") makes the construction fail in the parser: no
\* Detector is constructed, no angle list is kept, not even the angles of
\* the tokens before the bad one, and nothing has been assembled or sent
\* to the backend.
C14_MalformedOptionFailsConstruction ==
    pc # "new" /\ Malformed(rotation) =>
        /\ pc = "config_error"
        /\ self_rotation = <<>>
        /\ batch = EmptyDict
        /\ returned = <<>>
        /\ calls = 0
        /\ output = <<>>

\* C14 witness: the option "90,1-" failed although its first token is an
\* integer
C14_Witness ==
    /\ pc = "config_error"
    /\ rotation = Str(<<"9", "0", ",", "1", "-">>)
    /\ self_rotation = <<>>

(***************************************************************************)
(* Properties of the geometry.                                             *)
(***************************************************************************)
Abs(n) == IF n < 0 THEN 0 - n ELSE n

\* how far left, top, right and bottom of the mapped-back record lie from
\* the frame box it came from
Errors ==
    << Abs(Left(output[1]) - batch.box[1]), Abs(Top(output[1]) - batch.box[2]),
       Abs(Right(output[1]) - batch.box[3]), Abs(Bottom(output[1]) - batch.box[4]) >>

\* the larger side of the frame: scale = input_size / LargerSide
LargerSide == Max(batch.frame[1], batch.frame[2])

\* C15, as stated: for any frame size and integer box in the frame, the
\* box mapped into the model input (c * scale + pad) and back through
\* finalize's conversion has left, top, right and bottom each within 1
\* pixel of the original.
C15_RoundTripWithinOnePixel ==
    pc = "mapped" => \A k \in 1..4 : Errors[k] <= 1

\* C15, amended: the four coordinates are within 1 pixel when scale >= 1
\* (the frame's larger side is at most input_size); in general left and
\* top are within 1/2 + 1/(2 scale) and right and bottom within
\* 1 + 1/scale pixels of the original.
C15_RoundTripWithinScale ==
    pc = "mapped" =>
        /\ input_size >= LargerSide => \A k \in 1..4 : Errors[k] <= 1
        /\ \A k \in {1, 2} : 2 * input_size * Errors[k] <= input_size + LargerSide
        /\ \A k \in {3, 4} : input_size * Errors[k] <= input_size + LargerSide

\* C15 witness: a frame larger than the model input whose box came back
\* with its right edge 2 pixels off
C15_Witness ==
    /\ pc = "mapped"
    /\ LargerSide > input_size
    /\ batch.box[1] < batch.box[3]
    /\ Errors[3] = 2

\* v is an integer nearest to n / d
Nearest(v, n, d) == 2 * Abs(v * d - n) <= d

\* C19, as stated: the record built from a raw box has left, top, right
\* and bottom (right = x + w, bottom = y + h) each equal to the input
\* coordinate rounded to the nearest integer, its width and height being
\* the differences of the rounded coordinates.
C19_EachCoordinateRounded ==
    pc = "face" =>
        /\ Nearest(Left(output[1]), batch.box[1], RawDen)
        /\ Nearest(Top(output[1]), batch.box[2], RawDen)
        /\ Nearest(Right(output[1]), batch.box[3], RawDen)
        /\ Nearest(Bottom(output[1]), batch.box[4], RawDen)
        /\ output[1].w = Right(output[1]) - Left(output[1])
        /\ output[1].h = Bottom(output[1]) - Top(output[1])

\* C19, amended: left and top of the record are the input's left and top
\* rounded to the nearest integer, its width and height are right - left
\* and bottom - top rounded to the nearest integer, and its right and
\* bottom (x + w, y + h) are within 1 of the rounded right and bottom.
C19_CornerAndExtentRounded ==
    pc = "face" =>
        /\ Nearest(output[1].x, batch.box[1], RawDen)
        /\ Nearest(output[1].y, batch.box[2], RawDen)
        /\ Nearest(output[1].w, batch.box[3] - batch.box[1], RawDen)
        /\ Nearest(output[1].h, batch.box[4] - batch.box[2], RawDen)
        /\ \E v \in (Right(output[1]) - 1)..(Right(output[1]) + 1) :
              Nearest(v, batch.box[3], RawDen)
        /\ \E v \in (Bottom(output[1]) - 1)..(Bottom(output[1]) + 1) :
              Nearest(v, batch.box[4], RawDen)

\* C19 witness: a box of positive width whose record's right edge is not
\* the rounded right coordinate
C19_Witness ==
    /\ pc = "face"
    /\ batch.box[1] < batch.box[3]
    /\ ~Nearest(Right(output[1]), batch.box[3], RawDen)

\* C20: for every frame size the (pad_left, pad_top) of _set_padding is
\* the left and top border _pad_image adds to the image resized by
\* _scale_image, whose size is floor(height * scale) by floor(width *
\* scale), or the frame's own size when scale is 1.
C20_PaddingsAgree ==
    pc = "compiled" =>
        /\ output[1][3] = output[1][1].border
        /\ returned[1].shape =
              IF input_size = LargerSide THEN batch.frame
              ELSE << (batch.frame[1] * input_size) \div LargerSide,
                      (batch.frame[2] * input_size) \div LargerSide >>

\* C20 witness: a frame that was resized and got an odd number of padding
\* columns, the smaller half of them on the left
C20_Witness ==
    /\ pc = "compiled"
    /\ input_size # LargerSide
    /\ (input_size - returned[1].shape[2]) % 2 = 1
    /\ output[1][3][1] > 0
    /\ 2 * output[1][3][1] < input_size - returned[1].shape[2]

(***************************************************************************)
(* Properties of what _predict returns.                                    *)
(***************************************************************************)
\* _predict has returned its batch
Returned == pc \in {"finalize", "done"} /\ "rotmat" \in DOMAIN batch /\ seen # <<>>

\* a step in which self.predict was invoked and returned a prediction
Predicted == calls' = calls + 1 /\ pc' # "raised"

\* C16, as stated: when _predict returns, every item for which no angle
\* produced a prediction with a box in it has an empty rotation matrix,
\* whatever the angle list.
C16_NeverFoundHasEmptyMatrix ==
    Returned =>
        \A i \in 1..Len(batch["rotmat"]) :
            ~seen[i].box => batch["rotmat"][i] = <<>>

\* C16, amended: when _predict returns, every such item carries the
\* matrix of the last angle of the list, at which it was rotated last; the
\* matrix is empty only when that angle is 0, the list being [0].  The
\* search ran through the whole list, and the item has no prediction.
C16_NeverFoundHasLastMatrix ==
    Returned =>
        \A i \in 1..Len(batch["rotmat"]) :
            ~seen[i].box =>
                /\ calls = Len(self_rotation)
                /\ batch["rotmat"][i] = MatrixOf(self_rotation[Len(self_rotation)])
                /\ batch["rotmat"][i] = <<>> <=> self_rotation = <<0>>
                /\ batch["prediction"][i] = <<>>

\* C16 witness: after a search over 0, 90, 180 and 270 an item for which
\* the backend never returned a box carries the matrix of 270, next to an
\* item that was found
C16_Witness ==
    /\ pc = "finalize"
    /\ self_rotation = <<0, 90, 180, 270>>
    /\ \E i, j \in 1..Len(batch["rotmat"]) :
          /\ ~seen[i].box
          /\ batch["rotmat"][i] = <<270>>
          /\ seen[j].any

\* C17, as stated: the prediction of an item when _predict returns is the
\* backend's prediction at the earliest invoked angle at which it returned
\* one with a box in it (each merge keeps an entry that holds a box and
\* otherwise takes the call's prediction), and it is empty only if the
\* backend returned an empty prediction for the item at every angle.
C17_EarliestNonEmptyPrediction ==
    /\ [](Returned =>
            /\ batch["prediction"] = found_faces
            /\ \A i \in 1..Len(found_faces) :
                  found_faces[i] = <<>> <=> ~seen[i].box)
    /\ [][Predicted =>
            \A i \in 1..Len(found_faces) :
                found_faces'[i] = IF Len(found_faces[i]) > 0 THEN found_faces[i]
                                  ELSE batch'["prediction"][i]]_vars

\* C17, amended: the prediction of an item when _predict returns is the
\* backend's prediction at the earliest invoked angle at which it returned
\* one with a non-zero coordinate (each merge keeps an entry that has a
\* non-zero coordinate and otherwise takes the call's prediction, so an
\* entry of all-zero boxes is replaced); without such an angle it is the
\* prediction of the last invoked angle, which is empty or all zeros.
C17_EarliestFoundPrediction ==
    /\ [](Returned =>
            /\ batch["prediction"] = found_faces
            /\ \A i \in 1..Len(found_faces) :
                  ArrAny(found_faces[i]) <=> seen[i].any)
    /\ [][Predicted =>
            \A i \in 1..Len(found_faces) :
                found_faces'[i] = IF ArrAny(found_faces[i]) THEN found_faces[i]
                                  ELSE batch'["prediction"][i]]_vars

\* C17 witness: _predict returned an item whose prediction is the one the
\* backend gave at 90 degrees, after an empty one at 0, although the
\* backend's last call returned another face for it
C17_Witness ==
    /\ pc = "finalize"
    /\ calls >= 3
    /\ \E i \in 1..Len(found_faces) :
          /\ found_angle[i] = 90
          /\ ArrAny(batch["prediction"][i])
          /\ seen[i].any

====
